---- MODULE Spec2Model ----
(***************************************************************************)
(* Model of the Pareto analyser: src/app/api/analyze/route.ts.             *)
(*                                                                         *)
(* Strings are sequences of one-character strings.  JavaScript numbers are *)
(* modelled as exact rationals <<n, d>> in lowest terms (d > 0); NaN is    *)
(* the empty tuple.  The numbers reachable within the bounds are far from  *)
(* the limits of a double, so Infinity never arises here.                  *)
(***************************************************************************)
EXTENDS Integers, Sequences, FiniteSets, TLC

VARIABLES pc, sheetUrl, csvText, rows, response

vars == <<pc, sheetUrl, csvText, rows, response>>

(* ------------------------------ bounds -------------------------------- *)

\* longest raw document text, in characters
MaxLen == 5
\* most data rows of a one-column sheet
MaxRows == 5
\* most data rows of a two-column sheet
MaxWideRows == 2

(* ------------------------------ strings ------------------------------- *)

NL == "\n"
Comma == ","
Quote == "\""
Space == " "

Alphabet == {"a", "1", "-", ".", Space, Quote, Comma, NL}

Digits == {"0", "1", "2", "3", "4", "5", "6", "7", "8", "9"}

DigitVal(c) ==
  CASE c = "0" -> 0 [] c = "1" -> 1 [] c = "2" -> 2 [] c = "3" -> 3
    [] c = "4" -> 4 [] c = "5" -> 5 [] c = "6" -> 6 [] c = "7" -> 7
    [] c = "8" -> 8 [] c = "9" -> 9

\* the characters String.prototype.trim removes, among those of the model
IsWhite(c) == c = Space

Range(s) == {s[i] : i \in 1..Len(s)}

RECURSIVE TrimStart(_)
TrimStart(s) ==
  IF s # <<>> /\ IsWhite(Head(s)) THEN TrimStart(Tail(s)) ELSE s

RECURSIVE TrimEnd(_)
TrimEnd(s) ==
  IF s # <<>> /\ IsWhite(s[Len(s)]) THEN TrimEnd(SubSeq(s, 1, Len(s) - 1)) ELSE s

\* s.trim()
Trim(s) == TrimEnd(TrimStart(s))

\* s.replace(/^"|"$/g, ''): one leading quote, then one trailing quote of
\* what is left
Unquote(s) ==
  LET a == IF s # <<>> /\ Head(s) = Quote THEN Tail(s) ELSE s
  IN  IF a # <<>> /\ a[Len(a)] = Quote THEN SubSeq(a, 1, Len(a) - 1) ELSE a

\* v.trim().replace(/^"|"$/g, '')
CleanField(v) == Unquote(Trim(v))

\* s.split(sep): always at least one piece; pieces may be empty
RECURSIVE SplitFrom(_, _, _, _)
SplitFrom(s, sep, i, cur) ==
  IF i > Len(s) THEN <<cur>>
  ELSE IF s[i] = sep THEN <<cur>> \o SplitFrom(s, sep, i + 1, <<>>)
  ELSE SplitFrom(s, sep, i + 1, Append(cur, s[i]))

Split(s, sep) == SplitFrom(s, sep, 1, <<>>)

\* lines.filter(line => line.trim())
RECURSIVE FilterNonBlank(_)
FilterNonBlank(ls) ==
  IF ls = <<>> THEN <<>>
  ELSE IF Trim(Head(ls)) # <<>> THEN <<Head(ls)>> \o FilterNonBlank(Tail(ls))
  ELSE FilterNonBlank(Tail(ls))

\* fields.map(v => v.trim().replace(/^"|"$/g, ''))
CleanFields(fs) == [i \in 1..Len(fs) |-> CleanField(fs[i])]

(* ------------------------------ parseCSV ------------------------------ *)

\* values[index] || ''
ValueAt(values, index) == IF index <= Len(values) THEN values[index] ELSE <<>>

\* row[header] = v on a plain object: a later assignment to the same key
\* replaces the earlier one
SetKey(row, header, v) ==
  [k \in (DOMAIN row) \cup {header} |-> IF k = header THEN v ELSE row[k]]

\* headers.forEach((header, index) => { row[header] = values[index] || '' })
RECURSIVE AssignHeaders(_, _, _, _)
AssignHeaders(row, headers, values, index) ==
  IF index > Len(headers) THEN row
  ELSE AssignHeaders(SetKey(row, headers[index], ValueAt(values, index)),
                     headers, values, index + 1)

EmptyRow == [k \in {} |-> <<>>]

RowOfLine(headers, line) ==
  AssignHeaders(EmptyRow, headers, CleanFields(Split(line, Comma)), 1)

\* variant: the loop over the lines starts at the header line (i = 0)
parseCSVFromHeader(text) ==
  LET lines == FilterNonBlank(Split(text, NL))
  IN  IF Len(lines) = 0 THEN <<>>
      ELSE LET headers == CleanFields(Split(lines[1], Comma))
           IN  [i \in 1..Len(lines) |-> RowOfLine(headers, lines[i])]

parseCSV(text) ==
  LET lines == FilterNonBlank(Split(text, NL))
  IN  IF Len(lines) = 0 THEN <<>>
      ELSE LET headers == CleanFields(Split(lines[1], Comma))
           IN  [i \in 1..(Len(lines) - 1) |-> RowOfLine(headers, lines[i + 1])]

(* ------------------------------ numbers ------------------------------- *)

RECURSIVE GCD(_, _)
GCD(a, b) == IF b = 0 THEN a ELSE GCD(b, a % b)

Abs(n) == IF n < 0 THEN -n ELSE n

\* the rational n/d (d > 0) in lowest terms
Num(n, d) ==
  LET g == GCD(Abs(n), d) IN <<n \div g, d \div g>>

NaN == <<>>
isNaN(x) == x = NaN

Zero == Num(0, 1)
FromInt(n) == Num(n, 1)

RAdd(x, y) == Num(x[1] * y[2] + y[1] * x[2], x[2] * y[2])
RMul(x, y) == Num(x[1] * y[1], x[2] * y[2])
\* x / y for y > 0
RDiv(x, y) == Num(x[1] * y[2], x[2] * y[1])
\* Math.abs
RAbs(x) == <<Abs(x[1]), x[2]>>
RLeq(x, y) == x[1] * y[2] <= y[1] * x[2]
RLt(x, y) == x[1] * y[2] < y[1] * x[2]

RECURSIVE Pow10(_)
Pow10(k) == IF k = 0 THEN 1 ELSE 10 * Pow10(k - 1)

\* value of a string of decimal digits ("" is 0)
RECURSIVE DigitsVal(_)
DigitsVal(ds) ==
  IF ds = <<>> THEN 0
  ELSE 10 * DigitsVal(SubSeq(ds, 1, Len(ds) - 1)) + DigitVal(ds[Len(ds)])

\* longest prefix of s made of decimal digits
RECURSIVE DigitPrefix(_)
DigitPrefix(s) ==
  IF s # <<>> /\ Head(s) \in Digits THEN <<Head(s)>> \o DigitPrefix(Tail(s))
  ELSE <<>>

Drop(s, n) == SubSeq(s, n + 1, Len(s))

\* String(value).replace(/[^0-9.-]/g, '')
RECURSIVE StripNonNumeric(_)
StripNonNumeric(s) ==
  IF s = <<>> THEN <<>>
  ELSE IF Head(s) \in Digits \cup {".", "-"}
       THEN <<Head(s)>> \o StripNonNumeric(Tail(s))
       ELSE StripNonNumeric(Tail(s))

\* parseFloat on a string of digits, '.' and '-': the longest prefix of the
\* form  -? digits* (. digits*)?  holding at least one digit, else NaN
parseFloat(s) ==
  LET neg  == s # <<>> /\ Head(s) = "-"
      body == IF neg THEN Tail(s) ELSE s
      ip   == DigitPrefix(body)
      rest == Drop(body, Len(ip))
      fp   == IF rest # <<>> /\ Head(rest) = "." THEN DigitPrefix(Tail(rest))
              ELSE <<>>
      mag  == Num(DigitsVal(ip) * Pow10(Len(fp)) + DigitsVal(fp), Pow10(Len(fp)))
  IN  IF Len(ip) + Len(fp) = 0 THEN NaN
      ELSE IF neg THEN <<-mag[1], mag[2]>> ELSE mag

\* contribution.toFixed(1) of x >= 0, as the number of tenths printed: the
\* integer n with n/10 nearest to x, the larger one on a tie
toFixed1(x) == (20 * x[1] + x[2]) \div (2 * x[2])

(* ------------------------ performParetoAnalysis ----------------------- *)

HIGH == "Alta Prioridad"
MEDIUM == "Media Prioridad"
LOW == "Baja Prioridad"

\* const numValue = parseFloat(String(value).replace(/[^0-9.-]/g, ''))
numValueOf(value) == parseFloat(StripNonNumeric(value))

\* variant: the number is added with its sign (Math.abs left out)
AddValueSigned(totalValue, value) ==
  LET numValue == numValueOf(value)
  IN  IF ~isNaN(numValue) THEN RAdd(totalValue, numValue) ELSE totalValue

\* if (!isNaN(numValue)) totalValue += Math.abs(numValue)
AddValue(totalValue, value) ==
  LET numValue == numValueOf(value)
  IN  IF ~isNaN(numValue) THEN RAdd(totalValue, RAbs(numValue)) ELSE totalValue

\* Object.entries(row).forEach(...): the accumulation over the row's keys
\* (exact addition does not depend on the order of the entries)
RECURSIVE SumEntries(_, _, _)
SumEntries(row, keys, totalValue) ==
  IF keys = {} THEN totalValue
  ELSE LET k == CHOOSE x \in keys : TRUE
       IN  SumEntries(row, keys \ {k}, AddValue(totalValue, row[k]))

rowsWithValues(rs) ==
  [index \in 1..Len(rs) |->
     [rowNumber |-> index,
      data |-> rs[index],
      totalValue |-> SumEntries(rs[index], DOMAIN rs[index], Zero)]]

\* variant: an element goes before the elements it ties with
RECURSIVE InsertDescBeforeTies(_, _)
InsertDescBeforeTies(s, r) ==
  IF s = <<>> THEN <<r>>
  ELSE IF RLeq(Head(s).totalValue, r.totalValue) THEN <<r>> \o s
  ELSE <<Head(s)>> \o InsertDescBeforeTies(Tail(s), r)

\* position at which a stable descending sort places r among the already
\* sorted s: after every element that does not compare after it
RECURSIVE InsertDesc(_, _)
InsertDesc(s, r) ==
  IF s = <<>> THEN <<r>>
  ELSE IF RLt(Head(s).totalValue, r.totalValue) THEN <<r>> \o s
  ELSE <<Head(s)>> \o InsertDesc(Tail(s), r)

\* rowsWithValues.sort((a, b) => b.totalValue - a.totalValue), a stable sort
RECURSIVE SortDesc(_)
SortDesc(s) ==
  IF s = <<>> THEN <<>>
  ELSE InsertDesc(SortDesc(SubSeq(s, 1, Len(s) - 1)), s[Len(s)])

\* variant: the reduction has no initial value and takes the first row
\* object as the starting sum, losing its weight
RECURSIVE SumTotalsSkipFirst(_)
SumTotalsSkipFirst(s) ==
  IF Len(s) <= 1 THEN Zero
  ELSE RAdd(SumTotalsSkipFirst(SubSeq(s, 1, Len(s) - 1)), s[Len(s)].totalValue)

\* rowsWithValues.reduce((sum, row) => sum + row.totalValue, 0)
RECURSIVE SumTotals(_)
SumTotals(s) ==
  IF s = <<>> THEN Zero
  ELSE RAdd(SumTotals(SubSeq(s, 1, Len(s) - 1)), s[Len(s)].totalValue)

Hundred == FromInt(100)

\* variant: the share is left as a fraction (the * 100 left out)
contributionAsFraction(totalValue, grandTotal) ==
  IF RLt(Zero, grandTotal) THEN RDiv(totalValue, grandTotal) ELSE Zero

contributionOf(totalValue, grandTotal) ==
  IF RLt(Zero, grandTotal) THEN RMul(RDiv(totalValue, grandTotal), Hundred) ELSE Zero

\* variant: a zero grand total counts as fully accumulated
cumulativePercentageFullOnZero(cumulativeValue, grandTotal) ==
  IF RLt(Zero, grandTotal) THEN RMul(RDiv(cumulativeValue, grandTotal), Hundred)
  ELSE Hundred

cumulativePercentageOf(cumulativeValue, grandTotal) ==
  IF RLt(Zero, grandTotal) THEN RMul(RDiv(cumulativeValue, grandTotal), Hundred) ELSE Zero

\* variant: the thresholds are exclusive
classifyExclusive(cumulativePercentage) ==
  IF RLt(cumulativePercentage, FromInt(80)) THEN HIGH
  ELSE IF RLt(cumulativePercentage, FromInt(95)) THEN MEDIUM
  ELSE LOW

classify(cumulativePercentage) ==
  IF RLeq(cumulativePercentage, FromInt(80)) THEN HIGH
  ELSE IF RLeq(cumulativePercentage, FromInt(95)) THEN MEDIUM
  ELSE LOW

scoreOf(contribution, cumulativePercentage) ==
  IF RLeq(cumulativePercentage, FromInt(80)) THEN RAdd(contribution, FromInt(30))
  ELSE IF RLeq(cumulativePercentage, FromInt(95)) THEN RAdd(contribution, FromInt(15))
  ELSE contribution

(* ----------------------- generateRecommendations ---------------------- *)

\* a message: its fixed text and, for the three templates, the tenths that
\* contribution.toFixed(1) prints in it
Fixed(text) == [text |-> text, pct |-> <<>>]
WithPct(text, contribution) == [text |-> text, pct |-> <<toFixed1(contribution)>>]

MsgCritical(c) == WithPct("Esta linea es critica: representa el {}% del valor total", c)
MsgResources == Fixed("Priorizar recursos y atencion inmediata en este elemento")
MsgMonitoring == Fixed("Implementar seguimiento continuo y metricas de rendimiento")
MsgOptimize == Fixed("Buscar oportunidades de optimizacion para maximizar el retorno")
MsgContributes(c) == WithPct("Contribuye con {}% del valor total", c)
MsgRegular == Fixed("Mantener seguimiento regular y considerar para optimizacion secundaria")
MsgPromote == Fixed("Evaluar si puede mejorarse para entrar en el grupo de alta prioridad")
MsgLimited(c) == WithPct("Impacto limitado: {}% del valor total", c)
MsgAutomate == Fixed("Considerar automatizacion o simplificacion de procesos")
MsgProportional == Fixed("Evaluar si los recursos asignados son proporcionales al impacto")
MsgTop20 == Fixed("Top 20%: Este elemento es de los mas valiosos del conjunto")

tierMessages(row, classification, contribution) ==
  IF classification = HIGH
  THEN <<MsgCritical(contribution), MsgResources, MsgMonitoring>>
       \o (IF RLt(Zero, row.totalValue) THEN <<MsgOptimize>> ELSE <<>>)
  ELSE IF classification = MEDIUM
  THEN <<MsgContributes(contribution), MsgRegular, MsgPromote>>
  ELSE <<MsgLimited(contribution), MsgAutomate, MsgProportional>>

\* variant: the marker needs cumulativePercentage < 20
top20MessagesExclusive(cumulativePercentage) ==
  IF RLt(cumulativePercentage, FromInt(20)) THEN <<MsgTop20>> ELSE <<>>

top20Messages(cumulativePercentage) ==
  IF RLeq(cumulativePercentage, FromInt(20)) THEN <<MsgTop20>> ELSE <<>>

generateRecommendations(row, classification, contribution, cumulativePercentage) ==
  tierMessages(row, classification, contribution) \o top20Messages(cumulativePercentage)

(* ------------------------------ the report ---------------------------- *)

\* variant: cumulativeValue is assigned, not accumulated
ownValueAt(sorted, index) ==
  IF index = 0 THEN Zero ELSE sorted[index].totalValue

\* cumulativeValue after the rows at sorted positions 1..index
RECURSIVE cumulativeValueAt(_, _)
cumulativeValueAt(sorted, index) ==
  IF index = 0 THEN Zero
  ELSE RAdd(cumulativeValueAt(sorted, index - 1), sorted[index].totalValue)

rowAnalysisOf(row, cumulativeValue, grandTotal) ==
  LET contribution == contributionOf(row.totalValue, grandTotal)
      cumulativePercentage == cumulativePercentageOf(cumulativeValue, grandTotal)
      classification == classify(cumulativePercentage)
  IN  [rowNumber |-> row.rowNumber,
       data |-> row.data,
       paretoScore |-> scoreOf(contribution, cumulativePercentage),
       classification |-> classification,
       metrics |-> [totalValue |-> row.totalValue,
                    cumulativePercentage |-> cumulativePercentage,
                    contribution |-> contribution],
       recommendations |-> generateRecommendations(row, classification,
                                                   contribution, cumulativePercentage)]

CountClass(rowAnalyses, c) ==
  Cardinality({i \in 1..Len(rowAnalyses) : rowAnalyses[i].classification = c})

summaryOf(rowAnalyses, grandTotal) ==
  [totalRows |-> Len(rowAnalyses),
   highPriority |-> CountClass(rowAnalyses, HIGH),
   mediumPriority |-> CountClass(rowAnalyses, MEDIUM),
   lowPriority |-> CountClass(rowAnalyses, LOW),
   totalValue |-> grandTotal]

performParetoAnalysis(rs) ==
  LET sorted == SortDesc(rowsWithValues(rs))
      grandTotal == SumTotals(sorted)
      rowAnalyses == [index \in 1..Len(sorted) |->
                        rowAnalysisOf(sorted[index],
                                      cumulativeValueAt(sorted, index), grandTotal)]
  IN  [summary |-> summaryOf(rowAnalyses, grandTotal),
       rowAnalyses |-> rowAnalyses,
       paretoThreshold |-> 80]

(* ------------------------------ documents ----------------------------- *)

\* every text of at most MaxLen characters
RawTexts == UNION {[1..n -> Alphabet] : n \in 0..MaxLen}

RECURSIVE Join(_, _)
Join(parts, sep) ==
  IF parts = <<>> THEN <<>>
  ELSE IF Len(parts) = 1 THEN parts[1]
  ELSE parts[1] \o <<sep>> \o Join(Tail(parts), sep)

\* the CSV export of a sheet: a header line, then one line per data row
SheetText(headers, grid) ==
  Join(<<Join(headers, Comma)>> \o [i \in 1..Len(grid) |-> Join(grid[i], Comma)], NL)

SheetCells == {<<"1", "6">>, <<"3">>, <<"1">>, <<"a">>}
WideCells == {<<"4">>, <<"-", "4">>, <<"1">>, <<"a">>}

\* one-column sheets of 1..MaxRows data rows
Sheets ==
  {SheetText(<<<<"a">>>>, g) :
     g \in UNION {[1..n -> [1..1 -> SheetCells]] : n \in 1..MaxRows}}

\* two-column sheets of 1..MaxWideRows data rows
WideSheets ==
  {SheetText(<<<<"a">>, <<"b">>>>, g) :
     g \in UNION {[1..n -> [1..2 -> WideCells]] : n \in 1..MaxWideRows}}

Documents == RawTexts \cup Sheets \cup WideSheets

SheetUrls == {"", "https://docs.google.com/spreadsheets/d/abc/edit"}

(* -------------------------------- POST -------------------------------- *)

ErrUrlRequired == "URL de hoja de calculo requerida"
ErrNoAccess == "No se pudo acceder a la hoja de calculo. Asegurate de que sea publica."
ErrEmpty == "La hoja de calculo esta vacia"

NoBody == <<>>
ErrorResponse(status, message) == [status |-> status, error |-> message, body |-> NoBody]
JsonResponse(analysis) == [status |-> 200, error |-> "", body |-> analysis]
NoResponse == [status |-> 0, error |-> "", body |-> NoBody]

Init ==
  /\ pc = "start"
  /\ sheetUrl \in SheetUrls
  /\ csvText = <<>>
  /\ rows = <<>>
  /\ response = NoResponse

\* if (!sheetUrl) return 400
RejectMissingUrl ==
  /\ pc = "start"
  /\ sheetUrl = ""
  /\ response' = ErrorResponse(400, ErrUrlRequired)
  /\ pc' = "done"
  /\ UNCHANGED <<sheetUrl, csvText, rows>>

\* const response = await fetch(csvUrl)
StartFetch ==
  /\ pc = "start"
  /\ sheetUrl # ""
  /\ pc' = "fetching"
  /\ UNCHANGED <<sheetUrl, csvText, rows, response>>

\* if (!response.ok) throw ...; caught: status 500 with the message
FetchNotOk ==
  /\ pc = "fetching"
  /\ response' = ErrorResponse(500, ErrNoAccess)
  /\ pc' = "done"
  /\ UNCHANGED <<sheetUrl, csvText, rows>>

\* const csvText = await response.text()
FetchText ==
  /\ pc = "fetching"
  /\ \E t \in Documents : csvText' = t
  /\ pc' = "fetched"
  /\ UNCHANGED <<sheetUrl, rows, response>>

\* the response for the parsed rows: the empty-sheet error or the report
respond(rs) ==
  IF Len(rs) = 0 THEN ErrorResponse(500, ErrEmpty)
  ELSE JsonResponse(performParetoAnalysis(rs))

\* parseCSV, the empty check, performParetoAnalysis and the JSON response
Analyze ==
  /\ pc = "fetched"
  /\ rows' = parseCSV(csvText)
  /\ response' = respond(rows')
  /\ pc' = "done"
  /\ UNCHANGED <<sheetUrl, csvText>>

Next ==
  \/ RejectMissingUrl
  \/ StartFetch
  \/ FetchNotOk
  \/ FetchText
  \/ Analyze

Spec == Init /\ [][Next]_vars

(* ------------------------------- report ------------------------------- *)

Reported == pc = "done" /\ response.status = 200
analyses == response.body.rowAnalyses
summary == response.body.summary

\* the handler got as far as parsing the fetched text
Analyzed == pc = "done" /\ response.error \notin {ErrUrlRequired, ErrNoAccess}

Eighty == FromInt(80)
NinetyFive == FromInt(95)
Twenty == FromInt(20)

cpOf(a) == a.metrics.cumulativePercentage
contribOf(a) == a.metrics.contribution
weightOf(a) == a.metrics.totalValue

(* ------------------------------- C1 ----------------------------------- *)

\* C1: in every report, each record's tier and score follow from its
\* cumulativePercentage and contribution: <= 80 is High with score
\* contribution + 30, (80, 95] is Medium with contribution + 15, > 95 is Low
\* with score = contribution; exactly 80 is High and exactly 95 is Medium.
C1_TierAndScore ==
  Reported =>
    \A i \in 1..Len(analyses) :
      LET a == analyses[i] IN
        /\ RLeq(cpOf(a), Eighty) =>
             a.classification = HIGH /\ a.paretoScore = RAdd(contribOf(a), FromInt(30))
        /\ (RLt(Eighty, cpOf(a)) /\ RLeq(cpOf(a), NinetyFive)) =>
             a.classification = MEDIUM /\ a.paretoScore = RAdd(contribOf(a), FromInt(15))
        /\ RLt(NinetyFive, cpOf(a)) =>
             a.classification = LOW /\ a.paretoScore = contribOf(a)

\* a report with a record at exactly 80 (High), one at exactly 95 (Medium)
\* and one above 95 (Low)
C1_Witness ==
  /\ Reported
  /\ \E i, j, k \in 1..Len(analyses) :
       /\ cpOf(analyses[i]) = Eighty /\ analyses[i].classification = HIGH
       /\ cpOf(analyses[j]) = NinetyFive /\ analyses[j].classification = MEDIUM
       /\ RLt(NinetyFive, cpOf(analyses[k])) /\ analyses[k].classification = LOW

(* ------------------------------- C2 ----------------------------------- *)

\* C2: cumulativePercentage is non-decreasing along rowAnalyses; the last
\* record's is 100 when the total weight is > 0; every record's is 0 when
\* the total weight is 0.
C2_CumulativeMonotone ==
  Reported =>
    /\ \A i \in 1..(Len(analyses) - 1) : RLeq(cpOf(analyses[i]), cpOf(analyses[i + 1]))
    /\ RLt(Zero, summary.totalValue) => cpOf(analyses[Len(analyses)]) = Hundred
    /\ summary.totalValue = Zero => \A i \in 1..Len(analyses) : cpOf(analyses[i]) = Zero

\* a report of several rows with positive total whose cumulativePercentage
\* really grows
C2_Witness ==
  /\ Reported
  /\ Len(analyses) >= 3
  /\ RLt(Zero, summary.totalValue)
  /\ RLt(cpOf(analyses[1]), cpOf(analyses[2]))
  /\ RLt(cpOf(analyses[2]), cpOf(analyses[3]))

(* ------------------------------- C3 ----------------------------------- *)

NoNumericField(rs) ==
  \A i \in 1..Len(rs) : \A k \in DOMAIN rs[i] : isNaN(numValueOf(rs[i][k]))

AllOfTier(t) == \A i \in 1..Len(analyses) : analyses[i].classification = t

\* C3 as stated: a header and N >= 1 data rows without any numeric field give
\* a report with summary.totalValue = 0 and every record Low.
C3_Original ==
  (pc = "done" /\ Len(rows) >= 1 /\ NoNumericField(rows)) =>
    /\ response.status = 200
    /\ summary.totalValue = Zero
    /\ AllOfTier(LOW)

\* C3: amended: a header and N >= 1 data rows without any numeric field give
\* a report, without error, with summary.totalValue = 0 in which every record
\* is High ('Alta Prioridad'): its cumulativePercentage is 0 <= 80.
C3_ZeroWeightAllHigh ==
  (pc = "done" /\ Len(rows) >= 1 /\ NoNumericField(rows)) =>
    /\ response.status = 200
    /\ summary.totalValue = Zero
    /\ summary.totalRows = Len(rows)
    /\ AllOfTier(HIGH)
    /\ summary.highPriority = Len(rows)

C3_Witness ==
  /\ Reported
  /\ Len(rows) >= 2
  /\ NoNumericField(rows)
  /\ \E i \in 1..Len(rows) : \E k \in DOMAIN rows[i] : rows[i][k] # <<>>

(* ------------------------------- C4 ----------------------------------- *)

\* position i holds the first non-whitespace character of its line
FirstInk(t, i) ==
  /\ t[i] # NL /\ ~IsWhite(t[i])
  /\ \A j \in 1..(i - 1) :
       (\A m \in j..(i - 1) : t[m] # NL) => IsWhite(t[j])

NonBlankLines(t) == Cardinality({i \in 1..Len(t) : FirstInk(t, i)})

\* C4: once the text is fetched, the handler answers with the empty-sheet
\* error (and no report) exactly when parsing yields zero records, that is
\* when the text has no non-blank line or only the header line; any text with
\* at least one record gets a report.
C4_EmptyInputIff ==
  Analyzed =>
    /\ (response = ErrorResponse(500, ErrEmpty)) <=> (Len(rows) = 0)
    /\ (Len(rows) = 0) <=> (NonBlankLines(csvText) <= 1)
    /\ Len(rows) >= 1 =>
         /\ response.status = 200
         /\ response.error = ""
         /\ Len(analyses) = Len(rows)

\* a report for a text with a short row and a field that is not a number
C4_Witness ==
  /\ Reported
  /\ NonBlankLines(csvText) >= 2
  /\ \E i \in 1..Len(rows) : \E k \in DOMAIN rows[i] :
       rows[i][k] # <<>> /\ isNaN(numValueOf(rows[i][k]))
  /\ Cardinality(DOMAIN rows[1]) >= 2
  /\ \E k \in DOMAIN rows[1] : rows[1][k] = <<>>

(* ------------------------------- C5 ----------------------------------- *)

\* C5: rowAnalyses is a permutation of the parsed rows, each entry carrying
\* the 1-based input position of its row as rowNumber; entries are in
\* descending weight order, rows of equal weight in ascending rowNumber.
C5_RankedPermutation ==
  Reported =>
    /\ Len(analyses) = Len(rows)
    /\ {analyses[i].rowNumber : i \in 1..Len(analyses)} = 1..Len(rows)
    /\ \A i \in 1..Len(analyses) : analyses[i].data = rows[analyses[i].rowNumber]
    /\ \A i, j \in 1..Len(analyses) :
         i < j =>
           /\ RLeq(weightOf(analyses[j]), weightOf(analyses[i]))
           /\ weightOf(analyses[i]) = weightOf(analyses[j]) =>
                analyses[i].rowNumber < analyses[j].rowNumber

\* a report whose order differs from the input order and holds a tie
C5_Witness ==
  /\ Reported
  /\ \E i \in 1..(Len(analyses) - 1) :
       analyses[i].rowNumber > analyses[i + 1].rowNumber
  /\ \E i, j \in 1..Len(analyses) :
       i < j /\ weightOf(analyses[i]) = weightOf(analyses[j])
             /\ RLt(Zero, weightOf(analyses[i]))

(* ------------------------------- C6 ----------------------------------- *)

\* sum of the contribution values at ranked positions 1..n
RECURSIVE ContributionSum(_, _)
ContributionSum(as, n) ==
  IF n = 0 THEN Zero ELSE RAdd(ContributionSum(as, n - 1), contribOf(as[n]))

TierTexts(t) ==
  IF t = HIGH THEN <<MsgCritical(Zero).text, MsgResources.text, MsgMonitoring.text>>
  ELSE IF t = MEDIUM THEN <<MsgContributes(Zero).text, MsgRegular.text, MsgPromote.text>>
  ELSE <<MsgLimited(Zero).text, MsgAutomate.text, MsgProportional.text>>

\* C7: the recommendations of a record open with the three messages of its
\* tier, the first one printing the contribution to one decimal; a High
\* record then has the optimization message iff its weight > 0; Medium and
\* Low records have nothing more; last of all comes the 'Top 20%' marker iff
\* cumulativePercentage <= 20.
C7_RecommendationList ==
  Reported =>
    \A i \in 1..Len(analyses) :
      LET a       == analyses[i]
          recs    == a.recommendations
          optim   == a.classification = HIGH /\ RLt(Zero, weightOf(a))
          top     == RLeq(cpOf(a), Twenty)
          nOptim  == IF optim THEN 1 ELSE 0
          nTop    == IF top THEN 1 ELSE 0
      IN  /\ Len(recs) = 3 + nOptim + nTop
          /\ \A k \in 1..3 : recs[k].text = TierTexts(a.classification)[k]
          /\ recs[1].pct = <<toFixed1(contribOf(a))>>
          /\ \A k \in 2..Len(recs) : recs[k].pct = <<>>
          /\ optim => recs[4] = MsgOptimize
          /\ top => recs[Len(recs)] = MsgTop20
          /\ \A k \in 1..Len(recs) :
               /\ recs[k] = MsgTop20 => (top /\ k = Len(recs))
               /\ recs[k] = MsgOptimize => (optim /\ k = 4)

\* a High record of positive weight at exactly 20 (five messages), next to a
\* High record above 20 (four messages) and a Low record (three messages)
C7_Witness ==
  /\ Reported
  /\ \E i, j, k \in 1..Len(analyses) :
       /\ cpOf(analyses[i]) = Twenty /\ RLt(Zero, weightOf(analyses[i]))
       /\ Len(analyses[i].recommendations) = 5
       /\ analyses[j].classification = HIGH /\ Len(analyses[j].recommendations) = 4
       /\ analyses[k].classification = LOW /\ Len(analyses[k].recommendations) = 3

(* ------------------------------- C8 ----------------------------------- *)

NumericKeys(row) == {k \in DOMAIN row : ~isNaN(numValueOf(row[k]))}

RECURSIVE AbsSum(_, _)
AbsSum(row, keys) ==
  IF keys = {} THEN Zero
  ELSE LET k == CHOOSE x \in keys : TRUE
       IN  RAdd(RAbs(numValueOf(row[k])), AbsSum(row, keys \ {k}))

\* C8: a record's weight is the sum of the absolute values of exactly its
\* column values that convert to a number after the stripping; the other
\* values add nothing; the weight is >= 0, and 0 without a numeric column.
C8_WeightIsAbsSum ==
  Reported =>
    \A i \in 1..Len(analyses) :
      LET a == analyses[i] IN
        /\ weightOf(a) = AbsSum(a.data, NumericKeys(a.data))
        /\ RLeq(Zero, weightOf(a))
        /\ NumericKeys(a.data) = {} => weightOf(a) = Zero
        /\ (\A k \in DOMAIN a.data : Range(a.data[k]) \cap Digits = {}) =>
             weightOf(a) = Zero
        /\ \A k \in NumericKeys(a.data) :
             RLeq(RAbs(numValueOf(a.data[k])), weightOf(a))

\* a record with a negative number, a positive number, and one with a value
\* that does not convert
C8_Witness ==
  /\ Reported
  /\ \E i, j \in 1..Len(analyses) :
       /\ \E k1, k2 \in DOMAIN analyses[i].data :
            /\ k1 # k2
            /\ {k1, k2} \subseteq NumericKeys(analyses[i].data)
            /\ RLt(numValueOf(analyses[i].data[k1]), Zero)
            /\ RLt(Zero, numValueOf(analyses[i].data[k2]))
       /\ \E k1, k2 \in DOMAIN analyses[j].data :
            /\ analyses[j].data[k1] # <<>> /\ isNaN(numValueOf(analyses[j].data[k1]))
            /\ ~isNaN(numValueOf(analyses[j].data[k2]))

(* ------------------------------- C9 ----------------------------------- *)

nonBlank(t) == FilterNonBlank(Split(t, NL))
headerNames(t) == CleanFields(Split(nonBlank(t)[1], Comma))
lineFields(t, i) == CleanFields(Split(nonBlank(t)[i + 1], Comma))

\* C9: parseCSV yields one record per non-blank line after the header line,
\* in input order; every record has exactly the header's column names as
\* keys, and the value of the k-th column is the line's k-th field (trimmed
\* and unquoted), or the empty string when the line has fewer fields.
C9_RecordPerLine ==
  Analyzed =>
    /\ Len(rows) = (IF NonBlankLines(csvText) = 0 THEN 0 ELSE NonBlankLines(csvText) - 1)
    /\ \A i \in 1..Len(rows) :
         /\ DOMAIN rows[i] = Range(headerNames(csvText))
         /\ \A k \in 1..Len(headerNames(csvText)) :
              rows[i][headerNames(csvText)[k]] =
                (IF k <= Len(lineFields(csvText, i)) THEN lineFields(csvText, i)[k]
                 ELSE <<>>)

(* ------------------------------- C10 ---------------------------------- *)

TierRank(t) == IF t = HIGH THEN 1 ELSE IF t = MEDIUM THEN 2 ELSE 3

\* C10: along rowAnalyses the High records form a prefix, followed by the
\* Medium records, followed by the Low records; the three summary counts add
\* up to totalRows and are the lengths of these blocks.
C10_TierBlocks ==
  Reported =>
    /\ \A i \in 1..(Len(analyses) - 1) :
         TierRank(analyses[i].classification) <= TierRank(analyses[i + 1].classification)
    /\ summary.highPriority + summary.mediumPriority + summary.lowPriority
         = summary.totalRows
    /\ summary.totalRows = Len(analyses)
    /\ \A i \in 1..Len(analyses) :
         /\ analyses[i].classification = HIGH <=> i <= summary.highPriority
         /\ analyses[i].classification = MEDIUM <=>
              (summary.highPriority < i /\ i <= summary.highPriority + summary.mediumPriority)
         /\ analyses[i].classification = LOW <=>
              summary.highPriority + summary.mediumPriority < i

\* a report with a block of each tier, the High one of several records
C10_Witness ==
  /\ Reported
  /\ summary.highPriority >= 2
  /\ summary.mediumPriority >= 1
  /\ summary.lowPriority >= 1

====
